---- MODULE Spec2Model ----
(***************************************************************************)
(* Model of studioqt.ImageSequence (src/src/studioqt/imagesequence.py):    *)
(* the frame list built from a directory, a zip archive or a single file,  *)
(* the in-memory copy of the archive, and the play/pause/stop/reset state  *)
(* machine driven by a QTimer.                                             *)
(*                                                                         *)
(* Strings are sequences of one-character strings, so that the natural     *)
(* sort key (re.split on digit runs, int() of the digit runs) is computed  *)
(* as the code computes it.  None is the empty option <<>>, a value v that *)
(* may be None is the option <<v>>.                                        *)
(***************************************************************************)
EXTENDS Integers, Sequences, FiniteSets, TLC

VARIABLES
    timer,       \* self._timer: "None", or the QTimer, "stopped" or "active"
    frame,       \* self._frame
    frames,      \* self._frames
    dirname,     \* self._dirname, an option
    paused,      \* self._paused
    bytes,       \* self._bytes: the entries of the in-memory zip archive
    bytes_read,  \* self._bytes_read: option of the entries the read handle sees
    fs,          \* the file system: what the zip file and the directory hold
    last,        \* the last call: its name, argument, exception, signal, disk read
    held         \* history: what pause() found when it halted playback of an
                 \* archive held in memory, an option, kept until the call
                 \* after the resume()

vars ==
    <<timer, frame, frames, dirname, paused, bytes, bytes_read, fs, last, held>>

----------------------------------------------------------------------------
(* Bounds *)

\* the in-memory archive is capped at this many entries
MaxBuf == 3

\* jumpToFrame is called with indexes up to this many past frameCount()
SeekPast == 1

\* naturalSortItems is called on lists of up to this many items
MaxItems == 3

\* runs of up to this many consecutive ticks are followed
MaxTicks == 4

----------------------------------------------------------------------------
(* Characters and strings *)

Digits == {"0", "1", "2", "3", "4", "5", "6", "7", "8", "9"}

\* int() of one decimal digit
DigitVal(c) ==
    CASE c = "0" -> 0 [] c = "1" -> 1 [] c = "2" -> 2 [] c = "3" -> 3
      [] c = "4" -> 4 [] c = "5" -> 5 [] c = "6" -> 6 [] c = "7" -> 7
      [] c = "8" -> 8 [] c = "9" -> 9

\* the code point of a character, which str comparison goes by
Ord(c) ==
    CASE c = "/" -> 47
      [] c \in Digits -> 48 + DigitVal(c)
      [] c = "d" -> 100 [] c = "f" -> 102 [] c = "i" -> 105
      [] c = "x" -> 120 [] c = "z" -> 122

Drop(s, n) == SubSeq(s, n + 1, Len(s))

Take(s, n) == SubSeq(s, 1, n)

\* length of the longest prefix of s made of digits (wantDigit) or of
\* non-digits
RECURSIVE RunLen(_, _)
RunLen(s, wantDigit) ==
    IF s = <<>> \/ ((s[1] \in Digits) # wantDigit)
    THEN 0
    ELSE 1 + RunLen(Tail(s), wantDigit)

\* re.split('([0-9]+)', key): text, digits, text, ..., text
RECURSIVE re_split(_)
re_split(key) ==
    LET n == RunLen(key, FALSE)
        rest == Drop(key, n)
        m == RunLen(rest, TRUE)
    IN  IF rest = <<>>
        THEN <<Take(key, n)>>
        ELSE <<Take(key, n), Take(rest, m)>> \o re_split(Drop(rest, m))

\* str.isdigit()
isdigit(text) == text # <<>> /\ \A i \in 1..Len(text) : text[i] \in Digits

\* int(text) of a digit run
RECURSIVE int(_)
int(text) ==
    IF text = <<>> THEN 0
    ELSE 10 * int(Take(text, Len(text) - 1)) + DigitVal(text[Len(text)])

convert(text) == IF isdigit(text) THEN int(text) ELSE text

alphanum_key(key) ==
    LET parts == re_split(key)
    IN  [i \in 1..Len(parts) |-> convert(parts[i])]

\* str < str
RECURSIVE StrLess(_, _)
StrLess(a, b) ==
    IF b = <<>> THEN FALSE
    ELSE IF a = <<>> THEN TRUE
    ELSE IF a[1] # b[1] THEN Ord(a[1]) < Ord(b[1])
    ELSE StrLess(Tail(a), Tail(b))

\* list < list on two sort keys.  re_split alternates text and digit runs
\* and starts with text, so position i holds a str when i is odd and an int
\* when i is even, in both keys.
RECURSIVE KeyLessFrom(_, _, _)
KeyLessFrom(a, b, i) ==
    IF i > Len(b) THEN FALSE
    ELSE IF i > Len(a) THEN TRUE
    ELSE IF a[i] # b[i]
         THEN IF i % 2 = 0 THEN a[i] < b[i] ELSE StrLess(a[i], b[i])
    ELSE KeyLessFrom(a, b, i + 1)

KeyLess(a, b) == KeyLessFrom(a, b, 1)

\* one step of a sort by the plain strings, as items.sort() without the
\* key would do
RECURSIVE InsertByKey_plainStrings(_, _)
InsertByKey_plainStrings(sorted, x) ==
    IF sorted = <<>> THEN <<x>>
    ELSE IF StrLess(x, sorted[1]) THEN <<x>> \o sorted
    ELSE <<sorted[1]>> \o InsertByKey_plainStrings(Tail(sorted), x)

\* one step of a stable sort: x goes after every item whose key is not
\* greater than its own
RECURSIVE InsertByKey(_, _)
InsertByKey(sorted, x) ==
    IF sorted = <<>> THEN <<x>>
    ELSE IF KeyLess(alphanum_key(x), alphanum_key(sorted[1]))
         THEN <<x>> \o sorted
    ELSE <<sorted[1]>> \o InsertByKey(Tail(sorted), x)

\* items.sort(key=alphanum_key): list.sort is stable
RECURSIVE naturalSortItems(_)
naturalSortItems(items) ==
    IF items = <<>> THEN <<>>
    ELSE InsertByKey(naturalSortItems(Take(items, Len(items) - 1)),
                     items[Len(items)])

----------------------------------------------------------------------------
(* The file system.  Four paths: a zip archive, a directory, an ordinary   *)
(* file and a path that does not exist.  What the archive and the          *)
(* directory hold may change between calls.                                *)

ZipPath == <<"z">>

DirPath == <<"d">>

FilePath == <<"i">>

NoPath == <<"x">>

Paths == {ZipPath, DirPath, FilePath, NoPath}

f1 == <<"f", "1">>

f2 == <<"f", "2">>

f10 == <<"f", "1", "0">>

f01 == <<"f", "0", "1">>

\* the contents the archive may have: entries in archive order
ZipContents ==
    { <<[name |-> f2, data |-> "a2"], [name |-> f1, data |-> "a1"]>>,
      <<[name |-> f1, data |-> "b1"]>>,
      <<>> }

\* the listings the directory may have, in the order os.listdir gives
DirContents == { <<f2, f10, f1>>, <<f1, f01>>, <<>> }

is_zipfile(path) == path = ZipPath

isfile(path) == path \in {ZipPath, FilePath}

isdir(path) == path = DirPath

\* zip_file.namelist()
namelist(zip) == [i \in 1..Len(zip) |-> zip[i].name]

\* os.listdir(dirname)
listdir(path) == fs.dir

\* the exception ZipFile(path, 'r') raises on a path that is no archive
OpenZipError(path) ==
    IF isdir(path) THEN "IsADirectoryError"
    ELSE IF isfile(path) THEN "BadZipFile"
    ELSE "FileNotFoundError"

----------------------------------------------------------------------------
(* The object.  Each method is an operator from the object's fields before *)
(* the call to the fields after it; raised is the exception that ended the *)
(* call ("" when it returned), emitted the values the frameChanged signal  *)
(* was emitted with, reread whether the archive file was read.             *)

None == <<>>

Self ==
    [timer |-> timer, frame |-> frame, frames |-> frames,
     dirname |-> dirname, paused |-> paused, bytes |-> bytes,
     bytes_read |-> bytes_read,
     raised |-> "", emitted |-> <<>>, reread |-> FALSE]

\* self._timer.stop(), self._timer.start(): AttributeError on None
TimerCall(s, state) ==
    IF s.timer = "None"
    THEN [s EXCEPT !.raised = "AttributeError"]
    ELSE [s EXCEPT !.timer = state]

\* setZipfile that opens the read handle only when there is none yet
setZipfile_keepsOldHandle(s, zip_sequence) ==
    LET s1 == [s EXCEPT !.dirname = <<zip_sequence>>]
        names == namelist(fs.zip)
        mem == s.bytes \o fs.zip
    IN  IF ~is_zipfile(zip_sequence)
        THEN [s1 EXCEPT !.raised = OpenZipError(zip_sequence)]
        ELSE [s1 EXCEPT !.frames = naturalSortItems(names),
                        !.bytes = mem,
                        !.bytes_read = IF @ = None THEN <<mem>> ELSE @,
                        !.reread = TRUE]

setZipfile(s, zip_sequence) ==
    LET s1 == [s EXCEPT !.dirname = <<zip_sequence>>]
        names == namelist(fs.zip)
        mem == s.bytes \o fs.zip
    IN  IF ~is_zipfile(zip_sequence)
        THEN [s1 EXCEPT !.raised = OpenZipError(zip_sequence)]
        ELSE [s1 EXCEPT !.frames = naturalSortItems(names),
                        !.bytes = mem,
                        !.bytes_read = <<mem>>,
                        !.reread = TRUE]

setDirname(s, path) ==
    LET s1 == [s EXCEPT !.dirname = <<path>>]
        listing == listdir(path)
    IN  IF isdir(path)
        THEN [s1 EXCEPT !.frames = naturalSortItems(
                 [i \in 1..Len(listing) |-> path \o <<"/">> \o listing[i]])]
        ELSE s1

setPath(s, path) ==
    IF is_zipfile(path) THEN setZipfile(s, path)
    ELSE IF isfile(path) THEN [s EXCEPT !.frame = 0, !.frames = <<path>>]
    ELSE IF isdir(path) THEN setDirname(s, path)
    ELSE s

\* reset() that releases the buffer and rewinds also when paused
reset_ignoresPaused(s) ==
    LET s1 == IF s.timer = "None" THEN [s EXCEPT !.timer = "stopped"] ELSE s
    IN  TimerCall([s1 EXCEPT !.bytes = <<>>, !.bytes_read = None, !.frame = 0],
                  "stopped")

\* reset() that forgets to drop the read handle
reset_keepsHandle(s) ==
    LET s1 == IF s.timer = "None" THEN [s EXCEPT !.timer = "stopped"] ELSE s
        s2 == IF ~s1.paused
              THEN [s1 EXCEPT !.bytes = <<>>, !.frame = 0]
              ELSE s1
    IN  TimerCall(s2, "stopped")

reset(s) ==
    LET s1 == IF s.timer = "None" THEN [s EXCEPT !.timer = "stopped"] ELSE s
        s2 == IF ~s1.paused
              THEN [s1 EXCEPT !.bytes = <<>>, !.bytes_read = None, !.frame = 0]
              ELSE s1
    IN  TimerCall(s2, "stopped")

\* pause() that only sets the flag and leaves the timer running
pause_flagOnly(s) == [s EXCEPT !.paused = TRUE]

pause(s) == TimerCall([s EXCEPT !.paused = TRUE], "stopped")

resume(s) ==
    IF s.paused
    THEN TimerCall([s EXCEPT !.paused = FALSE], "active")
    ELSE s

stop(s) ==
    TimerCall([s EXCEPT !.bytes = <<>>, !.bytes_read = None], "stopped")

start(s) ==
    LET s1 == reset(s)
        s2 == IF s1.raised = "" /\ s1.dirname # None /\ s1.dirname[1] # <<>>
              THEN setPath(s1, s1.dirname[1])
              ELSE s1
    IN  IF s2.raised = "" /\ s2.timer # "None"
        THEN TimerCall(s2, "active")
        ELSE s2

frameCount(s) == Len(s.frames)

\* jumpToFrame that wraps only past frameCount(), not at it
jumpToFrame_wrapsLate(s, index) ==
    LET f == IF index > frameCount(s) THEN 0 ELSE index
    IN  [s EXCEPT !.frame = f, !.emitted = Append(@, f)]

\* jumpToFrame that emits the index it was called with
jumpToFrame_emitsRequested(s, index) ==
    LET f == IF index >= frameCount(s) THEN 0 ELSE index
    IN  [s EXCEPT !.frame = f, !.emitted = Append(@, index)]

jumpToFrame(s, index) ==
    LET f == IF index >= frameCount(s) THEN 0 ELSE index
    IN  [s EXCEPT !.frame = f, !.emitted = Append(@, f)]

\* the tick handler without the frame += 1
_frameChanged_noAdvance(s) ==
    IF s.frames = <<>> THEN s
    ELSE jumpToFrame(s, s.frame)

\* the tick handler without the test for an empty frame list
_frameChanged_noEmptyTest(s) == jumpToFrame(s, s.frame + 1)

_frameChanged(s) ==
    IF s.frames = <<>> THEN s
    ELSE jumpToFrame(s, s.frame + 1)

----------------------------------------------------------------------------
(* Read accessors: what a call returns in the current state *)

currentFrameNumber(s) == s.frame

\* self._frames[n] as Python indexes a list: an option, None on IndexError
ListIndex(list, n) ==
    IF 0 <= n /\ n < Len(list) THEN <<list[n + 1]>>
    ELSE IF n < 0 /\ -n <= Len(list) THEN <<list[Len(list) + n + 1]>>
    ELSE None

currentFilename(s) == ListIndex(s.frames, currentFrameNumber(s))

firstFrame(s) == IF s.frames # <<>> THEN s.frames[1] ELSE <<>>

\* the value is the fraction num/den; float((len + frame)) / len - 1 is
\* kept as the exact quotient ((len + frame) - len) / len
percent(s) ==
    IF Len(s.frames) = s.frame + 1
    THEN [raised |-> "", num |-> 1, den |-> 1]
    ELSE IF Len(s.frames) = 0
    THEN [raised |-> "ZeroDivisionError", num |-> 0, den |-> 1]
    ELSE [raised |-> "", num |-> (Len(s.frames) + s.frame) - Len(s.frames),
          den |-> Len(s.frames)]

\* ZipFile.read(name) on the read handle: the last entry of that name,
\* KeyError when there is none (also for the name None)
ZipRead(entries, name) ==
    LET hits == {i \in 1..Len(entries) : <<entries[i].name>> = name}
    IN  IF hits = {}
        THEN [raised |-> "KeyError", data |-> ""]
        ELSE [raised |-> "",
              data |-> entries[CHOOSE i \in hits : \A j \in hits : j <= i].data]

\* where the pixmap is loaded from: the bytes read from the in-memory
\* archive, or the path handed to QPixmap.load
currentPixmap(s) ==
    IF s.dirname # None /\ s.dirname[1] # <<>> /\ is_zipfile(s.dirname[1])
    THEN IF s.bytes_read = None
         THEN [raised |-> "AttributeError", source |-> "memory",
               data |-> "", path |-> None]
         ELSE LET read == ZipRead(s.bytes_read[1], currentFilename(s))
              IN  [raised |-> read.raised, source |-> "memory",
                   data |-> read.data, path |-> None]
    ELSE [raised |-> "", source |-> "disk", data |-> "",
          path |-> currentFilename(s)]

----------------------------------------------------------------------------
(* The state machine *)

\* __init__ with an empty path
Init ==
    /\ timer = "None"
    /\ frame = 0
    /\ frames = <<>>
    /\ dirname = None
    /\ paused = FALSE
    /\ bytes = <<>>
    /\ bytes_read = None
    /\ fs \in [zip : ZipContents, dir : DirContents]
    /\ last = [op |-> "__init__", arg |-> <<>>, raised |-> "",
               emitted |-> <<>>, reread |-> FALSE]
    /\ held = None

\* the history of a pause: pause() on a running sequence with an archive in
\* memory records the frame list, the index, the buffer and the read
\* handle; reset(), pause() and resume() keep the record, resume() ends it
\* and every other call drops it
Held(op) ==
    LET open == IF last.op = "resume" THEN None ELSE held
    IN  IF op = "pause" /\ timer = "active" /\ bytes_read # None
        THEN <<[frames |-> frames, frame |-> frame, bytes |-> bytes,
                bytes_read |-> bytes_read]>>
        ELSE IF op \in {"reset", "pause", "resume"} THEN open
        ELSE None

\* the fields after a call, and the record of the call
Return(op, arg, r) ==
    /\ Len(r.bytes) <= MaxBuf
    /\ timer' = r.timer
    /\ frame' = r.frame
    /\ frames' = r.frames
    /\ dirname' = r.dirname
    /\ paused' = r.paused
    /\ bytes' = r.bytes
    /\ bytes_read' = r.bytes_read
    /\ last' = [op |-> op, arg |-> arg, raised |-> r.raised,
                emitted |-> r.emitted, reread |-> r.reread]
    /\ held' = Held(op)
    /\ UNCHANGED fs

SetPath == \E path \in Paths : Return("setPath", <<path>>, setPath(Self, path))

SetZipfile ==
    \E path \in Paths : Return("setZipfile", <<path>>, setZipfile(Self, path))

SetDirname ==
    \E path \in Paths : Return("setDirname", <<path>>, setDirname(Self, path))

Reset == Return("reset", <<>>, reset(Self))

Pause == Return("pause", <<>>, pause(Self))

Resume == Return("resume", <<>>, resume(Self))

Stop == Return("stop", <<>>, stop(Self))

Start == Return("start", <<>>, start(Self))

JumpToFrame ==
    \E index \in 0..(Len(frames) + SeekPast) :
        Return("jumpToFrame", <<index>>, jumpToFrame(Self, index))

\* the QTimer's timeout, which fires only while the timer is active
Timeout ==
    /\ timer = "active"
    /\ Return("_frameChanged", <<>>, _frameChanged(Self))

\* the archive or the directory gets other contents
FsChange ==
    /\ \E new \in [zip : ZipContents, dir : DirContents] :
          /\ new # fs
          /\ fs' = new
    /\ UNCHANGED <<timer, frame, frames, dirname, paused, bytes, bytes_read,
                   last, held>>

Next ==
    \/ SetPath
    \/ SetZipfile
    \/ SetDirname
    \/ Reset
    \/ Pause
    \/ Resume
    \/ Stop
    \/ Start
    \/ JumpToFrame
    \/ Timeout
    \/ FsChange

Spec == Init /\ [][Next]_vars

----------------------------------------------------------------------------
(* naturalSortItems on its own: the object between the statement that      *)
(* builds the unsorted frame list (lines 81 and 99) and the sort that      *)
(* follows it (lines 89 and 100)                                           *)

\* the identifiers the lists are made of
SortNames ==
    {f1, f2, f10, f01, <<"f">>, <<"d", "1", "0">>, <<"f", "1", "x", "2">>,
     <<"f", "1", "x", "1", "0">>}

\* the unsorted lists: every list of up to MaxItems identifiers
SortInputs == UNION {[1..n -> SortNames] : n \in 0..MaxItems}

SortInit ==
    /\ timer = "None"
    /\ frame = 0
    /\ frames \in SortInputs
    /\ dirname = None
    /\ paused = FALSE
    /\ bytes = <<>>
    /\ bytes_read = None
    /\ fs = [zip |-> <<>>, dir |-> <<>>]
    /\ last = [op |-> "__init__", arg |-> <<>>, raised |-> "",
               emitted |-> <<>>, reread |-> FALSE]
    /\ held = None

\* self.naturalSortItems(self._frames)
NaturalSortItems ==
    /\ last.op = "__init__"
    /\ frames' = naturalSortItems(frames)
    /\ last' = [last EXCEPT !.op = "naturalSortItems", !.arg = <<frames>>]
    /\ UNCHANGED <<timer, frame, dirname, paused, bytes, bytes_read, fs, held>>

SortNext == NaturalSortItems

SortSpec == SortInit /\ [][SortNext]_vars

TypeOK ==
    /\ timer \in {"None", "stopped", "active"}
    /\ frame \in 0..3
    /\ paused \in BOOLEAN
    /\ Len(bytes) <= MaxBuf
    /\ Len(dirname) <= 1
    /\ Len(bytes_read) <= 1

----------------------------------------------------------------------------
(* Playback left alone: up to the first start() the source is set with     *)
(* setPath, the index with jumpToFrame, and reset() and pause() are        *)
(* called; from start() on only the timer's ticks follow, which keep being *)
(* delivered while the timer is running                                    *)

\* start() has been called and only ticks have followed
Playing == last.op \in {"start", "_frameChanged"}

PlaySetPath == ~Playing /\ SetPath

PlayJumpToFrame == ~Playing /\ JumpToFrame

PlayReset == ~Playing /\ Reset

PlayPause == ~Playing /\ Pause

PlayFsChange == ~Playing /\ FsChange

PlayStart == ~Playing /\ Start

PlayTimeout == Playing /\ Timeout

PlayNext ==
    \/ PlaySetPath
    \/ PlayJumpToFrame
    \/ PlayReset
    \/ PlayPause
    \/ PlayFsChange
    \/ PlayStart
    \/ PlayTimeout

PlaySpec == Init /\ [][PlayNext]_vars /\ WF_vars(PlayTimeout)

----------------------------------------------------------------------------
(* Properties *)

\* a step that is a call of the method op (every call leaves the file
\* system alone, FsChange never does)
CallStep(op) == fs' = fs /\ last'.op = op

PathSetters == {"setPath", "setZipfile", "setDirname"}

\* C1: whenever the frame list is non-empty, 0 <= currentIndex < frameCount().
C1_IndexInRange ==
    frames # <<>> => 0 <= frame /\ frame < Len(frames)

\* C2: on an empty sequence percent, currentFilename and currentPixmap do
\* not raise, currentFilename is absent, and a jumpToFrame just made did not
\* raise and left the index at 0.
C2_EmptySequenceSafe ==
    frames = <<>> =>
        /\ percent(Self).raised = ""
        /\ currentFilename(Self) = None
        /\ currentPixmap(Self).raised = ""
        /\ (last.op = "jumpToFrame" => last.raised = "" /\ frame = 0)

\* C3: after setPath with a path that is neither archive, file nor
\* directory the call has not raised and the sequence is empty.
C3_UnsupportedPathEmpties ==
    (last.op = "setPath" /\ last.arg = <<NoPath>>) =>
        last.raised = "" /\ frames = <<>>

\* C4: from every state stop() completes, leaves the archive buffer
\* released and the timer halted, and does not change currentIndex.
C4_StopCompletes ==
    [][CallStep("stop") =>
          /\ last'.raised = ""
          /\ bytes' = <<>>
          /\ bytes_read' = None
          /\ timer' # "active"
          /\ frame' = frame]_vars

C6_OneArchiveInBuffer ==
    bytes \in ZipContents

\* C7: jumpToFrame(i) on a sequence of length L sets currentIndex to 0 when
\* i >= L and to i when 0 <= i < L.
C7_JumpWraps ==
    last.op = "jumpToFrame" =>
        frame = IF last.arg[1] >= Len(frames) THEN 0 ELSE last.arg[1]

\* C7 witness: jumpToFrame(L) on a sequence of L >= 2 frames gave index 0
C7_Witness ==
    /\ last.op = "jumpToFrame"
    /\ Len(frames) >= 2
    /\ last.arg[1] = Len(frames)
    /\ frame = 0

\* C8: with frameCount() > 0, percent() is exactly 1 on the last frame and
\* otherwise a value in [0, 1) equal to currentIndex / frameCount().
C8_PercentBoundary ==
    frames # <<>> =>
        LET p == percent(Self)
        IN  /\ p.raised = ""
            /\ IF frame = Len(frames) - 1
               THEN p.num = p.den
               ELSE /\ 0 <= p.num
                    /\ p.num < p.den
                    /\ p.num * Len(frames) = frame * p.den

\* C9: after a path-setting call with a path that is a file, a directory
\* or an archive, dirname() is that path.
C9_DirnameIsLastPath ==
    (last.op \in PathSetters /\ last.arg # <<NoPath>> /\ last.raised = "") =>
        dirname = last.arg

\* C10: after setPath with a path that is a file, a directory or an
\* archive, currentPixmap() reads from the in-memory archive exactly when
\* that path is an archive, and otherwise loads the path currentFilename()
\* names.
C10_SourceKindFollowsLastSetter ==
    (last.op = "setPath" /\ last.arg # <<NoPath>>) =>
        LET pixmap == currentPixmap(Self)
        IN  /\ pixmap.source = "memory" <=> is_zipfile(last.arg[1])
            /\ pixmap.source = "disk" => pixmap.path = currentFilename(Self)

\* C11: stop() and pause() that return leave the timer halted; the tick
\* handler runs only while the timer is running, so no tick changes
\* currentIndex or emits frameChanged while it is halted; and only start()
\* and resume() set a halted timer running again.
C11_HaltIsSynchronous ==
    [][/\ ((CallStep("stop") \/ CallStep("pause")) /\ last'.raised = "")
            => timer' = "stopped"
       /\ CallStep("_frameChanged") => timer = "active"
       /\ (timer # "active" /\ ~CallStep("start") /\ ~CallStep("resume"))
            => timer' # "active"]_vars

\* C11 witness: pause() has halted a playback that was past the first frame
C11_Witness ==
    /\ last.op = "pause"
    /\ last.raised = ""
    /\ held # None
    /\ timer = "stopped"
    /\ frame > 0

\* the first position where two lists of runs differ, 0 when they have no
\* position where both have a run and the runs differ
FirstDifference(a, b) ==
    LET both == 1..(IF Len(a) < Len(b) THEN Len(a) ELSE Len(b))
        diff == {i \in both : a[i] # b[i]}
    IN  IF diff = {} THEN 0 ELSE CHOOSE i \in diff : \A j \in diff : i <= j

\* the value of the digit run at position i of re.split's result
RunValue(name, i) == int(re_split(name)[i])

\* C12: naturalSortItems returns the items it was given, ordered so that of
\* two items whose runs first differ in a digit run the one with the
\* smaller integer comes first, and of two whose runs first differ in a text
\* run the one with the smaller string comes first; [f2, f10, f1] becomes
\* [f1, f2, f10].
C12_NaturalOrder ==
    last.op = "naturalSortItems" =>
        /\ Len(frames) = Len(last.arg[1])
        /\ \A x \in SortNames :
              Cardinality({i \in 1..Len(frames) : frames[i] = x})
                = Cardinality({i \in 1..Len(frames) : last.arg[1][i] = x})
        /\ \A i, j \in 1..Len(frames) :
              LET a == re_split(frames[i])
                  b == re_split(frames[j])
                  k == FirstDifference(a, b)
              IN  (i < j /\ k # 0) =>
                      IF k % 2 = 0
                      THEN RunValue(frames[i], k) <= RunValue(frames[j], k)
                      ELSE StrLess(a[k], b[k])
        /\ last.arg[1] = <<f2, f10, f1>> => frames = <<f1, f2, f10>>

\* C12 witness: [f2, f10, f1] has been sorted into [f1, f2, f10]
C12_Witness ==
    /\ last.op = "naturalSortItems"
    /\ last.arg[1] = <<f2, f10, f1>>
    /\ frames = <<f1, f2, f10>>

\* the listings os.listdir may give for the children it gave as listing
ListingOrders(listing) ==
    {[i \in 1..Len(listing) |-> listing[p[i]]] :
        p \in Permutations(1..Len(listing))}

\* the frame list setDirname builds from a listing of the directory
FramesOfListing(listing) ==
    naturalSortItems(
        [i \in 1..Len(listing) |-> DirPath \o <<"/">> \o listing[i]])

\* C13: setDirname on a directory of N distinct children gives N frames,
\* and the frame list it gives is the one it would give for every other
\* order in which the directory could list the same children.
C13_ListingOrderIrrelevant ==
    [][(CallStep("setDirname") /\ last'.arg = <<DirPath>>) =>
          /\ Len(frames') = Len(fs.dir)
          /\ \A other \in ListingOrders(fs.dir) :
                FramesOfListing(other) = frames']_vars

\* C14: setZipfile, or setPath, on an archive of n entries gives n frames,
\* the frames are the archive's entry names, and reading a frame from the
\* in-memory archive gives the bytes that entry has in the archive just
\* loaded, whatever the buffer held before.
C14_ArchiveRoundTrip ==
    [][((CallStep("setZipfile") \/ CallStep("setPath"))
          /\ last'.arg = <<ZipPath>>) =>
          /\ last'.raised = ""
          /\ Len(frames') = Len(fs.zip)
          /\ {frames'[i] : i \in 1..Len(frames')}
               = {fs.zip[i].name : i \in 1..Len(fs.zip)}
          /\ bytes_read' # None
          /\ \A i \in 1..Len(fs.zip) :
                ZipRead(bytes_read'[1], <<fs.zip[i].name>>)
                  = [raised |-> "", data |-> fs.zip[i].data]]_vars

\* C14 witness: an archive has been loaded over an earlier one that had
\* other bytes under the name f1
C14_Witness ==
    /\ last.op \in {"setZipfile", "setPath"}
    /\ last.reread
    /\ Len(frames) = 2
    /\ Len(bytes) = 3
    /\ bytes[1] = [name |-> f1, data |-> "b1"]
    /\ bytes_read # None
    /\ ZipRead(bytes_read[1], <<f1>>).data = "a1"

\* C15: a call of jumpToFrame, by a consumer or by the tick handler on a
\* non-empty frame list, emits frameChanged exactly once, with the value
\* currentIndex has after the call; every other call emits nothing.
C15_OneSignalPerJump ==
    IF last.op = "jumpToFrame" \/ (last.op = "_frameChanged" /\ frames # <<>>)
    THEN last.emitted = <<frame>>
    ELSE last.emitted = <<>>

\* C15 witness: the tick handler has wrapped around and emitted 0
C15_Witness ==
    /\ last.op = "_frameChanged"
    /\ Len(frames) = 3
    /\ frame = 0
    /\ last.emitted = <<0>>
    /\ ~paused

\* C16: the paused flag is never set while the timer is running.
C16_PausedExcludesRunning ==
    ~(paused /\ timer = "active")

RECURSIVE Ticks(_, _)
Ticks(s, k) == IF k = 0 THEN s ELSE Ticks(_frameChanged(s), k - 1)

\* C18: a tick on an empty frame list changes nothing and emits nothing; a
\* tick on a list of length L with 0 <= currentIndex < L sets currentIndex
\* to (currentIndex + 1) mod L, and k consecutive ticks from index i lead to
\* index (i + k) mod L.
C18_TickAdvances ==
    [][CallStep("_frameChanged") =>
          IF frames = <<>>
          THEN /\ UNCHANGED <<timer, frame, frames, dirname, paused, bytes,
                              bytes_read>>
               /\ last'.emitted = <<>>
               /\ last'.raised = ""
          ELSE (0 <= frame /\ frame < Len(frames)) =>
                  /\ frame' = (frame + 1) % Len(frames)
                  /\ frames' = frames
                  /\ \A k \in 0..MaxTicks :
                        Ticks(Self, k).frame = (frame + k) % Len(frames)]_vars

\* C18 witness: a tick has moved playback from the first frame to the second
C18_Witness ==
    /\ last.op = "_frameChanged"
    /\ Len(frames) = 3
    /\ frame = 1
    /\ last.emitted = <<1>>

\* the sequence is backed by the archive: _dirname is the archive and the
\* frame list is the sorted entry names of a content the archive can have
ArchiveBacked ==
    /\ dirname = <<ZipPath>>
    /\ \E zip \in ZipContents : frames = naturalSortItems(namelist(zip))

\* C19: when start() or resume() has set the timer running, or a tick has
\* been handled, on an archive-backed sequence with frames, the read handle
\* is not None and has an entry for every frame, so currentPixmap() does
\* not raise.
C19_RunningArchiveReadable ==
    (/\ last.op \in {"start", "resume", "_frameChanged"}
     /\ timer = "active"
     /\ ArchiveBacked
     /\ frames # <<>>) =>
        /\ bytes_read # None
        /\ \A i \in 1..Len(frames) :
              ZipRead(bytes_read[1], <<frames[i]>>).raised = ""
        /\ currentPixmap(Self).raised = ""

\* the positions a frame list can have
FramePositions ==
    (UNION {DOMAIN zip : zip \in ZipContents})
        \cup (UNION {DOMAIN dir : dir \in DirContents})

====
